---- MODULE Spec2Model ----
(***************************************************************************)
(* Model of the archive ingestion pipeline of gisc:                        *)
(*   populate_db.py  check_if_params, check_arg_for_none_value,            *)
(*                   get_url_from_date, populate, populate_events          *)
(*   utils.py        validate_date, in_valid_date_range, download,         *)
(*                   empty_directory, handle_valid_invalid_files,          *)
(*                   extract_zip                                           *)
(*   errors.py       GISCError.__init__ and the error classes              *)
(*   gisc_msgs.py    VALID_ARGS, ERROR_CODE_MSGS, TEMP_LOCATION            *)
(*                                                                         *)
(* Python strings whose characters the code inspects (the date expression, *)
(* the file-list entries) are sequences of one-character strings; strings  *)
(* the code only passes around (paths, urls, keys) are TLA+ strings.  The  *)
(* decompressed buffer of an archive is a sequence of JSON tokens.         *)
(***************************************************************************)
EXTENDS Integers, Sequences, FiniteSets, TLC

VARIABLES
    \* ---- validate_date (utils.py) ----
    arch_date,      \* the expression being validated
    dpc,            \* position inside validate_date
    lower, upper,   \* the two lists of component strings
    lowerInt, upperInt, \* the lists after map(int, ...)
    now,            \* the value the last datetime.datetime.now() returned
    ret,            \* the value validate_date returned (None before)
    raised,         \* the exception that left the function (NoError before)
    \* ---- populate_events (populate_db.py) ----
    pc,             \* position inside populate_events
    is_main,        \* __name__ == '__main__': run from the command line
    given,          \* the mapping populate_events was called with
    ap_args,        \* the local ap_args
    arg,            \* the local arg (line 158)
    arch_path,      \* the local arch_path
    del_arch_path,  \* the local del_arch_path
    entry_idx,      \* how many entries of the file list map() has handled
    gzs,            \* the archive files populate has still to process
    \* ---- populate (populate_db.py) ----
    gz,             \* the archive file being processed (<<>> before the first)
    end,            \* the local end: the cursor into gz_data
    events,         \* the local _events: type -> list of records
    flush,          \* the keys of _events the write loop has still to visit
    gz_events,      \* the values gz_event took for this file, in order
    populated,      \* the local i + 1: the archive files processed so far
    \* ---- the world ----
    dirs,           \* the directories that exist
    fs,             \* the files that exist: path -> content
    fs_prev,        \* the files as they were before the last file-list entry
    calls,          \* the calls populate_events made, in order
    printed,        \* what handle_valid_invalid_files printed, in order
    flog,           \* the messages GISCError.__init__ logged, in order
    store,          \* the bulk writes the database accepted, in order
    opened,         \* the archive files populate opened, in order
    clog            \* the messages logged to the console logger, in order

dateVars == <<arch_date, dpc, lower, upper, lowerInt, upperInt, ret>>
runLocals == <<is_main, given, ap_args, arg, arch_path, del_arch_path,
               entry_idx>>
runVars == <<pc, runLocals, gzs>>
popLocals == <<gz, end, events, flush, gz_events, populated, opened>>
popVars == <<popLocals, clog>>
worldVars == <<dirs, fs, fs_prev, calls, printed, store>>
vars == <<dateVars, runVars, popVars, worldVars, now, raised, flog>>

None == "None"
NoError == [cls |-> "NoError", code |-> "", template |-> "", args |-> <<>>]

\* the Python values None, True/False, a path string, a list
NoneV == [none |-> TRUE]
BoolV(b) == [bool |-> b]
PathV(p) == [path |-> p]
ListV(l) == [list |-> l]

\* bool(v)
Truthy(v) ==
    CASE "none" \in DOMAIN v -> FALSE
      [] "bool" \in DOMAIN v -> v.bool
      [] "path" \in DOMAIN v -> v.path # <<>>
      [] "list" \in DOMAIN v -> v.list # <<>>
      [] "text" \in DOMAIN v -> v.text # <<>>
      [] "str" \in DOMAIN v -> v.str # ""

(***************************************************************************)
(* Sequence helpers: the Python string methods the code uses.              *)
(***************************************************************************)
Range(s) == {s[i] : i \in 1..Len(s)}

Min(a, b) == IF a < b THEN a ELSE b

\* s[:n]
Take(s, n) == SubSeq(s, 1, Min(n, Len(s)))

\* the index of the first occurrence of the non-empty string d in s, 0 if none
Find(s, d) ==
    LET hits == {i \in 1..(Len(s) - Len(d) + 1) : SubSeq(s, i, i + Len(d) - 1) = d}
    IN IF hits = {} THEN 0 ELSE CHOOSE i \in hits : \A j \in hits : i <= j

\* d in s
Contains(s, d) == Find(s, d) # 0

\* s.split(d)
RECURSIVE Split(_, _)
Split(s, d) ==
    LET i == Find(s, d)
    IN IF i = 0 THEN <<s>>
       ELSE <<SubSeq(s, 1, i - 1)>> \o Split(SubSeq(s, i + Len(d), Len(s)), d)

\* s.strip(chars)
RECURSIVE Strip(_, _)
Strip(s, chars) ==
    IF s = <<>> THEN s
    ELSE IF s[1] \in chars THEN Strip(Tail(s), chars)
    ELSE IF s[Len(s)] \in chars THEN Strip(SubSeq(s, 1, Len(s) - 1), chars)
    ELSE s

\* '-'.join(parts)
RECURSIVE Join(_, _)
Join(parts, d) ==
    IF parts = <<>> THEN <<>>
    ELSE IF Len(parts) = 1 THEN parts[1]
    ELSE parts[1] \o d \o Join(Tail(parts), d)

Digits == <<"0", "1", "2", "3", "4", "5", "6", "7", "8", "9">>

DigitVal(c) == (CHOOSE i \in 1..Len(Digits) : Digits[i] = c) - 1

\* int(s) succeeds: over the alphabet of the inputs (digits, letters, braces,
\* dots, commas) int() accepts exactly the non-empty digit strings
IsInt(s) == s # <<>> /\ \A i \in 1..Len(s) : s[i] \in Range(Digits)

\* int(s)
RECURSIVE ToInt(_)
ToInt(s) ==
    IF s = <<>> THEN 0
    ELSE 10 * ToInt(SubSeq(s, 1, Len(s) - 1)) + DigitVal(s[Len(s)])

(***************************************************************************)
(* errors.py: GISCError.__init__ builds the message from ERROR_CODE_MSGS.  *)
(***************************************************************************)
\* gisc_msgs.py 172-183: the codes that have a message (the four date codes
\* are commented out); each with the number of %s its template holds
ERROR_CODE_MSGS ==
    [NO_ARG |-> 1, MULTIPLE_ARG |-> 1, NON_FINITE_ARGS |-> 1, DIR_PATH |-> 1,
     EMPTY_DIR |-> 1, BAD_ZIP |-> 1, INVALID_FILES |-> 2, INVALID_TYPE |-> 1,
     INVALID_DEFAULT_ARG |-> 1, INVALID_LANG |-> 1, UNEXPECTED_DTSTAMP |-> 1,
     UNIMPLEMENTED_CODE |-> 2, IMPROPER_FORMATTING |-> 3]

\* errors.py 36-57: the classes derived from DBPopulateError
DBPopulateFamily ==
    {"DBPopulateError", "BadZIPError", "ImproperArgsError",
     "InvalidArchFileError", "InvalidArchPathError", "NoArchiveFilesError"}

\* The exception object: its class, the code it was built with, the template
\* of its message and the values interpolated into the template.
\* formats is a sequence of values (<<>> for a falsy formats argument).
\* A Python value is a record that tells its kind: Txt(s) a string the model
\* keeps as characters, Str(s) a string it keeps whole, Keys(s) the keys of
\* a dict joined, and likewise NoneV, BoolV, PathV and ListV.
Txt(s) == [text |-> s]
Str(s) == [str |-> s]
Keys(s) == [keys |-> s]

GISCError(cls, code, formats, exc_msg) ==
    IF code \notin DOMAIN ERROR_CODE_MSGS
    THEN [cls |-> cls, code |-> code, template |-> "UNIMPLEMENTED_CODE",
          args |-> <<Str(code), exc_msg>>]
    ELSE IF formats = <<>>
    THEN [cls |-> cls, code |-> code, template |-> code, args |-> <<>>]
    ELSE IF Len(formats) # ERROR_CODE_MSGS[code]
    THEN [cls |-> cls, code |-> code, template |-> "IMPROPER_FORMATTING",
          args |-> <<>>]
    ELSE [cls |-> cls, code |-> code, template |-> code, args |-> formats]

(***************************************************************************)
(* utils.py: validate_date and in_valid_date_range.                        *)
(***************************************************************************)
\* A datetime is <<year, month, day, hour, rest>>: rest is 0 when minute,
\* second and microsecond are all zero and 1 otherwise.
START_DATE == <<2011, 2, 12, 0, 0>>

\* a < b on datetimes
RECURSIVE Before(_, _)
Before(a, b) ==
    IF a = <<>> THEN FALSE
    ELSE IF a[1] # b[1] THEN a[1] < b[1]
    ELSE Before(Tail(a), Tail(b))

in_valid_date_range_le(date, clock) ==
    ~Before(date, START_DATE) /\ Before(date, clock)

in_valid_date_range(date, clock) ==
    Before(START_DATE, date) /\ Before(date, clock)

\* arch_date.split('-')[:4]
DateParts(expr) == Take(Split(expr, <<"-">>), 4)

\* lines 103-105: the (left, right) pair of one component
BoundsOfCommaFirst(val) ==
    LET v == Strip(val, {"{", "}"})
        delimiter == IF Contains(v, <<",">>) THEN <<",">>
                     ELSE IF Contains(v, <<".", ".">>) THEN <<".", ".">>
                     ELSE <<>>
    IN IF delimiter # <<>> THEN Take(Split(v, delimiter), 2) ELSE <<v, v>>

BoundsOf(val) ==
    LET v == Strip(val, {"{", "}"})
        delimiter == IF Contains(v, <<".", ".">>) THEN <<".", ".">>
                     ELSE IF Contains(v, <<",">>) THEN <<",">>
                     ELSE <<>>
    IN IF delimiter # <<>> THEN Take(Split(v, delimiter), 2) ELSE <<v, v>>

LowerOf(parts) == [i \in 1..Len(parts) |-> BoundsOf(parts[i])[1]]
UpperOf(parts) == [i \in 1..Len(parts) |-> BoundsOf(parts[i])[2]]

yearW == <<"y", "e", "a", "r">>
monthW == <<"m", "o", "n", "t", "h">>
dateW == <<"d", "a", "t", "e">>
lowerW == <<"l", "o", "w", "e", "r">>
upperW == <<"u", "p", "p", "e", "r">>

\* lines 111-116 for one list v: the field whose length is wrong, <<>> if none
FormatField(v) ==
    IF Len(v[1]) # 4 THEN yearW
    ELSE IF Len(v[2]) # 2 THEN monthW
    ELSE IF Len(v[3]) # 2 THEN dateW
    ELSE <<>>

\* lines 109-116: the (field, bound) of the first violation, <<>> if none
FormatViolation(lo, up) ==
    IF FormatField(lo) # <<>> THEN <<FormatField(lo), lowerW>>
    ELSE IF FormatField(up) # <<>> THEN <<FormatField(up), upperW>>
    ELSE <<>>

\* lines 119-120: map(int, v) raises no ValueError
AllInt(v) == \A i \in 1..Len(v) : IsInt(v[i])

MapInt(v) == [i \in 1..Len(v) |-> ToInt(v[i])]

IsLeap(y) == (y % 4 = 0 /\ y % 100 # 0) \/ y % 400 = 0

DaysInMonth(y, m) ==
    IF m = 2 THEN (IF IsLeap(y) THEN 29 ELSE 28)
    ELSE IF m \in {4, 6, 9, 11} THEN 30 ELSE 31

\* datetime.datetime(year, month, day, hour) raises no ValueError
ValidDateTime(t) ==
    /\ t[1] \in 1..9999
    /\ t[2] \in 1..12
    /\ t[3] \in 1..DaysInMonth(t[1], t[2])
    /\ t[4] \in 0..23

\* datetime.datetime(*t)
DateTime(t) == <<t[1], t[2], t[3], t[4], 0>>

\* line 97-99: the unpacking into y, m, d, h raises ValueError
MissingValueLax(parts) == Len(parts) < 3

MissingValue(parts) == Len(parts) # 4

\* line 132: the value validate_date returns
ReturnValueStripped(expr, lo) == Join(lo, <<"-">>)

ReturnValue(expr, lo) == expr

\* the exceptions validate_date raises (lines 99, 112, 116, 122, 128, 133)
MissingValueError(expr) ==
    GISCError("DBPopulateError", "MISSING_VALUE", <<Txt(expr)>>, NoneV)

ImproperValueError(viol, expr) ==
    GISCError("DBPopulateError", "IMPROPER_VALUE",
              <<Txt(viol[1]), Txt(viol[2]), Txt(expr)>>, NoneV)

ImproperTypeError(expr) ==
    GISCError("DBPopulateError", "IMPROPER_TYPE", <<Txt(expr)>>, NoneV)

CalendarError == GISCError("DBPopulateError", "ValueError", <<>>, NoneV)

OutBracketError == GISCError("DBPopulateError", "_OUT_BRACKET", <<>>, NoneV)

\* validate_date as a whole, with the clock read once: [err, value]
ValidateDate(expr, clock) ==
    LET parts == DateParts(expr)
        lo == LowerOf(parts)
        up == UpperOf(parts)
        fail(e) == [err |-> e, value |-> None]
    IN IF MissingValue(parts) THEN fail(MissingValueError(expr))
       ELSE IF FormatViolation(lo, up) # <<>>
       THEN fail(ImproperValueError(FormatViolation(lo, up), expr))
       ELSE IF ~(AllInt(lo) /\ AllInt(up)) THEN fail(ImproperTypeError(expr))
       ELSE IF ~(ValidDateTime(MapInt(lo)) /\ ValidDateTime(MapInt(up)))
       THEN fail(CalendarError)
       ELSE IF in_valid_date_range(DateTime(MapInt(lo)), clock)
               /\ in_valid_date_range(DateTime(MapInt(up)), clock)
       THEN [err |-> NoError, value |-> ReturnValue(expr, lo)]
       ELSE fail(OutBracketError)

(***************************************************************************)
(* The date expressions and clock values the model runs over.             *)
(***************************************************************************)
\* how many components beyond the fourth an expression may carry
MaxExtra == 1

YearOpts ==
    { <<"2","0","1","2">>, <<"2","0","1","1">>, <<"2","0","1","0">>,
      <<"2","0","3","0">>, <<"2","0","1">>, <<"2","0","a","2">>,
      <<"{","2","0","1","1",".",".","2","0","1","2","}">>,
      <<"{","2","0","1","2",",","2","0","1","0","}">> }

MonthOpts ==
    { <<"0","4">>, <<"0","2">>, <<"4">>, <<"1","3">>, <<"0","a">>,
      <<"{","0","2",".",".","0","4","}">> }

DayOpts ==
    { <<"0","5">>, <<"1","2">>, <<"3","0">>, <<"5">>, <<"0","x">>,
      <<"{","0","5",".",".","2","5","}">>, <<"{","2","5",".",".","0","5","}">>,
      <<"{","0","5",".",".","2","5",".",".","3","0","}">>,
      <<"{","0","5",",","3","1","}">>, <<"{","0","5",".",".","5","}">> }

HourOpts ==
    { <<"2">>, <<"0","2">>, <<"0","0">>, <<"2","4">>, <<"x">>, <<>>,
      <<"{","2",".",".","1","8","}">>,
      <<"{","2",",","3",".",".","1","8","}">> }

ExtraOpts == { [i \in 1..n |-> <<"9">>] : n \in 0..MaxExtra }

DateInputs ==
    { Join(<<y, m, d, h>> \o x, <<"-">>) :
        y \in YearOpts, m \in MonthOpts, d \in DayOpts, h \in HourOpts,
        x \in ExtraOpts }
    \cup { Join(Take(<<y, m, d>>, n), <<"-">>) :
        y \in YearOpts, m \in MonthOpts, d \in DayOpts, n \in 1..3 }

\* 2012-04-05 02:00 sharp, a moment later, and a day of 2026
Clocks == { <<2012, 4, 5, 2, 0>>, <<2012, 4, 5, 2, 1>>, <<2026, 11, 6, 9, 1>> }

(***************************************************************************)
(* validate_date step by step.                                             *)
(***************************************************************************)
\* populate is not running
PopulateIdle ==
    /\ gz = <<>> /\ end = 0
    /\ events = <<>> /\ flush = {} /\ gz_events = <<>>
    /\ populated = 0 /\ opened = <<>> /\ clog = <<>>

\* populate_events is not running
RunIdle ==
    /\ pc = "idle" /\ is_main = FALSE
    /\ given = <<>> /\ ap_args = <<>>
    /\ arg = None /\ arch_path = <<>> /\ del_arch_path = NoneV
    /\ entry_idx = 0 /\ gzs = {}
    /\ dirs = {} /\ fs = <<>> /\ fs_prev = <<>>
    /\ calls = <<>> /\ printed = <<>> /\ store = <<>>
    /\ PopulateIdle

DateInit ==
    /\ arch_date \in DateInputs
    /\ now \in Clocks
    /\ dpc = "split"
    /\ lower = <<>> /\ upper = <<>>
    /\ lowerInt = <<>> /\ upperInt = <<>>
    /\ ret = None
    /\ raised = NoError
    /\ flog = <<>>
    /\ RunIdle

DateRaise(e) ==
    /\ dpc' = "raised"
    /\ raised' = e
    /\ flog' = Append(flog, e)
    /\ UNCHANGED <<arch_date, ret, lower, upper, lowerInt, upperInt>>

DateStep(next) ==
    /\ dpc' = next
    /\ UNCHANGED <<arch_date, ret, raised, flog>>

\* lines 96-107
VSplit ==
    /\ dpc = "split"
    /\ UNCHANGED <<runVars, popVars, worldVars, now>>
    /\ LET parts == DateParts(arch_date)
       IN IF MissingValue(parts)
          THEN DateRaise(MissingValueError(arch_date))
          ELSE /\ lower' = LowerOf(parts)
               /\ upper' = UpperOf(parts)
               /\ DateStep("format")
               /\ UNCHANGED <<lowerInt, upperInt>>

\* lines 109-116
VFormatAfterTyping ==
    /\ dpc = "format"
    /\ UNCHANGED <<runVars, popVars, worldVars, now>>
    /\ IF ~(AllInt(lower) /\ AllInt(upper))
       THEN DateRaise(ImproperTypeError(arch_date))
       ELSE IF FormatViolation(lower, upper) # <<>>
       THEN DateRaise(ImproperValueError(FormatViolation(lower, upper), arch_date))
       ELSE /\ DateStep("ints")
            /\ UNCHANGED <<lower, upper, lowerInt, upperInt>>

VFormat ==
    /\ dpc = "format"
    /\ UNCHANGED <<runVars, popVars, worldVars, now>>
    /\ IF FormatViolation(lower, upper) # <<>>
       THEN DateRaise(ImproperValueError(FormatViolation(lower, upper), arch_date))
       ELSE /\ DateStep("ints")
            /\ UNCHANGED <<lower, upper, lowerInt, upperInt>>

\* lines 118-122
VInts ==
    /\ dpc = "ints"
    /\ UNCHANGED <<runVars, popVars, worldVars, now>>
    /\ IF AllInt(lower) /\ AllInt(upper)
       THEN /\ lowerInt' = MapInt(lower)
            /\ upperInt' = MapInt(upper)
            /\ DateStep("calendar")
            /\ UNCHANGED <<lower, upper>>
       ELSE DateRaise(ImproperTypeError(arch_date))

\* lines 124-128
VCalendar ==
    /\ dpc = "calendar"
    /\ UNCHANGED <<runVars, popVars, worldVars, now>>
    /\ IF ValidDateTime(lowerInt) /\ ValidDateTime(upperInt)
       THEN /\ DateStep("range")
            /\ UNCHANGED <<lower, upper, lowerInt, upperInt>>
       ELSE DateRaise(CalendarError)

\* lines 131-133: the clock is read once for the lower bound and, when that
\* passes, once more for the upper bound; it never runs backwards
VRangeOrdered ==
    /\ dpc = "range"
    /\ UNCHANGED <<runVars, popVars, worldVars>>
    /\ IF in_valid_date_range(DateTime(lowerInt), now)
       THEN \E later \in Clocks :
              /\ ~Before(later, now)
              /\ now' = later
              /\ IF /\ in_valid_date_range(DateTime(upperInt), later)
                    /\ ~Before(DateTime(upperInt), DateTime(lowerInt))
                 THEN /\ ret' = ReturnValue(arch_date, lower)
                      /\ dpc' = "returned"
                      /\ UNCHANGED <<arch_date, raised, flog, lower, upper,
                                     lowerInt, upperInt>>
                 ELSE DateRaise(OutBracketError)
       ELSE DateRaise(OutBracketError) /\ UNCHANGED now

VRange ==
    /\ dpc = "range"
    /\ UNCHANGED <<runVars, popVars, worldVars>>
    /\ IF in_valid_date_range(DateTime(lowerInt), now)
       THEN \E later \in Clocks :
              /\ ~Before(later, now)
              /\ now' = later
              /\ IF in_valid_date_range(DateTime(upperInt), later)
                 THEN /\ ret' = ReturnValue(arch_date, lower)
                      /\ dpc' = "returned"
                      /\ UNCHANGED <<arch_date, raised, flog, lower, upper,
                                     lowerInt, upperInt>>
                 ELSE DateRaise(OutBracketError)
       ELSE DateRaise(OutBracketError) /\ UNCHANGED now

DateNext == VSplit \/ VFormat \/ VInts \/ VCalendar \/ VRange

SpecDate == DateInit /\ [][DateNext]_vars

(***************************************************************************)
(* The file system, as os.path, shutil and zipfile act on it.  A path is a *)
(* sequence of names with "/" between them.                                *)
(***************************************************************************)
\* gisc_msgs.py 18
TEMP_LOCATION == <<"gisc_jsons">>

\* gisc_msgs.py 22: 'delete_temp' is not among them
VALID_ARGS == {"url", "arch_date", "src_dir", "zip", "files", "temp"}

\* the five source modes
Modes == {"url", "arch_date", "src_dir", "zip", "files"}

\* the archives of a directory that holds eleven of them
ManyNames ==
    {"m01.json.gz", "m02.json.gz", "m03.json.gz", "m04.json.gz",
     "m05.json.gz", "m06.json.gz", "m07.json.gz", "m08.json.gz",
     "m09.json.gz", "m10.json.gz", "m11.json.gz"}

\* the names glob's '*.json.gz' matches
ArchiveNames ==
    {"a.json.gz", "b.json.gz", "c.json.gz", "d.json.gz", "e.json.gz",
     "old.json.gz", "missing.json.gz", "zz.json.gz"} \cup ManyNames

\* os.path.split(p)
PathSplit(p) ==
    LET cuts == {i \in 1..Len(p) : p[i] = "/"}
    IN IF cuts = {} THEN [head |-> <<>>, tail |-> p]
       ELSE LET i == CHOOSE c \in cuts : \A j \in cuts : j <= c
            IN [head |-> SubSeq(p, 1, i - 1), tail |-> SubSeq(p, i + 1, Len(p))]

\* os.path.join(a, b) for a relative b
PathJoin(a, b) == IF a = <<>> THEN b ELSE a \o <<"/">> \o b

\* p lies below directory d
Below(d, p) ==
    /\ Len(p) > Len(d) + 1
    /\ SubSeq(p, 1, Len(d)) = d
    /\ p[Len(d) + 1] = "/"

Restrict(f, S) == [x \in S |-> f[x]]

\* utils.py 146-159: the directories and files empty_directory leaves
EmptiedDirs(ds, dir_path, create) ==
    LET kept == {d \in ds : d # dir_path /\ ~Below(dir_path, d)}
    IN IF create THEN kept \cup {dir_path} ELSE kept

EmptiedFiles(ds, files, dir_path) ==
    IF dir_path \in ds
    THEN Restrict(files, {p \in DOMAIN files : ~Below(dir_path, p)})
    ELSE files

\* glob.glob(os.path.join(src_path, '*.json.gz'))
GlobAnyFile(files, src_path) ==
    {p \in DOMAIN files : PathSplit(p).head = src_path}

Glob(files, src_path) ==
    {p \in DOMAIN files :
        /\ PathSplit(p).head = src_path
        /\ Len(PathSplit(p).tail) = 1
        /\ PathSplit(p).tail[1] \in ArchiveNames}

\* zipfile.is_zipfile and the members of a zip file: name -> content
IsZipFile(z) == z = Str("good.zip")

ZipMembers(z) == ("a.json.gz" :> "A")

\* utils.py 204-207: the files after extractall(dest)
Extracted(files, z, dest) ==
    [p \in DOMAIN files \cup {PathJoin(dest, <<n>>) : n \in DOMAIN ZipMembers(z)} |->
        IF \E n \in DOMAIN ZipMembers(z) : p = PathJoin(dest, <<n>>)
        THEN ZipMembers(z)[PathSplit(p).tail[1]]
        ELSE files[p]]

(***************************************************************************)
(* utils.py 162-191: handle_valid_invalid_files on one entry.              *)
(***************************************************************************)
NonEmpty(x) == x # <<>>

\* line 174: the entry split on ',' with the empty pieces dropped
EntryPieces(entry) == SelectSeq(Split(entry, <<",">>), NonEmpty)

\* lines 175-178: the path and the file names the entry resolves to
EntryPath(files, entry) ==
    LET first == EntryPieces(entry)[1]
    IN IF first \in DOMAIN files THEN PathSplit(first).head ELSE first

EntryFiles(files, entry) ==
    LET first == EntryPieces(entry)[1]
        rest == Tail(EntryPieces(entry))
    IN IF first \in DOMAIN files THEN Append(rest, PathSplit(first).tail)
       ELSE rest

\* lines 181-186: the names of set(files) that are copied
EntryCopiedFailFast(files, entry) ==
    LET names == EntryFiles(files, entry)
        path == EntryPath(files, entry)
        bad == {i \in 1..Len(names) : PathJoin(path, names[i]) \notin DOMAIN files}
    IN {names[i] : i \in {j \in 1..Len(names) : \A b \in bad : j < b}}

EntryCopied(files, entry) ==
    {f \in Range(EntryFiles(files, entry)) :
        PathJoin(EntryPath(files, entry), f) \in DOMAIN files}

EntryMissing(files, entry) ==
    Range(EntryFiles(files, entry)) \ EntryCopied(files, entry)

\* lines 179-180: the path itself is reported
EntryPathInvalid(ds, files, entry) ==
    EntryPath(files, entry) \notin ds \/ EntryFiles(files, entry) = <<>>

\* shutil.copy(fil_path, dest) for every copied name, dest a directory
Copied(files, entry, dest) ==
    LET path == EntryPath(files, entry)
        target(f) == PathJoin(dest, PathSplit(PathJoin(path, f)).tail)
        new == {target(f) : f \in EntryCopied(files, entry)}
        src(p) == CHOOSE f \in EntryCopied(files, entry) : p = target(f)
    IN [p \in DOMAIN files \cup new |->
            IF p \in new THEN files[PathJoin(path, src(p))] ELSE files[p]]

\* the orders in which a set can be iterated
Orders(S) == {q \in [1..Cardinality(S) -> S] : Range(q) = S}

(***************************************************************************)
(* populate_db.py: check_if_params and check_arg_for_none_value.           *)
(***************************************************************************)
\* lines 50-51
Filtered(args) == Restrict(args, DOMAIN args \cap VALID_ARGS)

\* lines 52-56: the number of arguments that count as source modes
ArgsLenCountingTemp(args) == Cardinality(DOMAIN args)

ArgsLen(args) ==
    Cardinality(DOMAIN args)
        - (IF "temp" \in DOMAIN args THEN 1 ELSE 0)
        - (IF "delete_temp" \in DOMAIN args THEN 1 ELSE 0)

\* the keys, joined, as a message shows them
KeysOf(args) == Keys(DOMAIN args)

\* lines 72-77
NoneValueArgs(args) ==
    {k \in DOMAIN args :
        /\ k \notin {"temp", "delete_temp"}
        /\ ~Truthy(args[k])}

(***************************************************************************)
(* populate_db.py 95-139: populate.  The decompressed buffer of an archive *)
(* is a sequence of JSON tokens; an object is "{", its members, "}".       *)
(***************************************************************************)
\* gisc_msgs.py 10 and 20
ALL_COLL == "AllEvent"
POPULARITY_EVENTS == {"PushEvent", "WatchEvent", "FollowEvent"}

\* an exception that is no GISCError: nothing is formatted, nothing is logged
PyError(cls) == [cls |-> cls, code |-> "", template |-> "", args |-> <<>>]

\* a decoded JSON object: its 'type' member (None when it has none), its
\* 'id' member, and whether it has a 'payload' member holding an object
Obj(t, n, nested) == [type |-> t, id |-> n, nested |-> nested]

\* the number of objects open after buf[from..to]
Depth(buf, from, to) ==
    Cardinality({p \in from..to : buf[p] = "{"})
        - Cardinality({p \in from..to : buf[p] = "}"})

\* the value of member k of the object text, None when it has no such member
Member(text, k) ==
    LET at == {p \in 2..Len(text) - 2 :
                  text[p] = k /\ Depth(text, 1, p - 1) = 1}
    IN IF at = {} THEN None
       ELSE text[(CHOOSE p \in at : \A q \in at : p <= q) + 1]

\* the Python value of one object text
Loads(text) ==
    Obj(Member(text, "type"), Member(text, "id"),
        Member(text, "payload") # None)

\* the index after the "}" that closes the "{" at buf[start]; 0 when none does
CloseOfFirstBrace(buf, start) ==
    LET closes == {j \in start..Len(buf) : buf[j] = "}"}
    IN IF closes = {} THEN 0 ELSE CHOOSE j \in closes : \A k \in closes : j <= k

CloseOf(buf, start) ==
    LET closes == {j \in start..Len(buf) : Depth(buf, start, j) = 0}
    IN IF closes = {} THEN 0 ELSE CHOOSE j \in closes : \A k \in closes : j <= k

\* line 124: decoder.raw_decode(gz_data, idx): the object that starts at idx
\* (nothing is skipped before it) and the index right after it
RawDecodeLenient(buf, idx) ==
    IF idx >= Len(buf) \/ buf[idx + 1] # "{" \/ CloseOf(buf, idx + 1) = 0
    THEN [ok |-> TRUE, obj |-> Obj("PushEvent", None, FALSE), end |-> idx]
    ELSE [ok |-> TRUE,
          obj |-> Loads(SubSeq(buf, idx + 1, CloseOf(buf, idx + 1))),
          end |-> CloseOf(buf, idx + 1)]

RawDecode(buf, idx) ==
    IF idx >= Len(buf) \/ buf[idx + 1] # "{" \/ CloseOf(buf, idx + 1) = 0
    THEN [ok |-> FALSE, obj |-> Obj(None, None, FALSE), end |-> idx]
    ELSE [ok |-> TRUE,
          obj |-> Loads(SubSeq(buf, idx + 1, CloseOf(buf, idx + 1))),
          end |-> CloseOf(buf, idx + 1)]

\* line 126
AllowedAny(r) == TRUE

Allowed(r) == r.type \in POPULARITY_EVENTS

\* lines 127-129: _events after gz_event was looked at
GroupedLastOnly(evs, r) ==
    IF Allowed(r) THEN (r.type :> <<r>>) @@ evs ELSE evs

Grouped(evs, r) ==
    IF Allowed(r)
    THEN (r.type :> Append(IF r.type \in DOMAIN evs THEN evs[r.type] ELSE <<>>, r))
         @@ evs
    ELSE evs

\* lines 133-134: the two inserts of one group of file f, in order
GroupWritesAllFirst(k, v, f) ==
    << [coll |-> ALL_COLL, docs |-> v, gz |-> f],
       [coll |-> k, docs |-> v, gz |-> f] >>

GroupWrites(k, v, f) ==
    << [coll |-> k, docs |-> v, gz |-> f],
       [coll |-> ALL_COLL, docs |-> v, gz |-> f] >>

\* line 135
ProgressOnIndex(n) == (n - 1) % 10 = 0

Progress(n) == n % 10 = 0

\* the longest listing of which every order is explored
MaxShuffled == 2

\* lines 113 and 119: the files the loop may take next. glob yields the
\* names in the file system's order; a listing of up to MaxShuffled files is
\* taken in every order, a longer one in one order
Yielded(listing) ==
    IF Cardinality(listing) <= MaxShuffled THEN listing
    ELSE {CHOOSE f \in listing : TRUE}

(***************************************************************************)
(* The inputs of a run.                                                    *)
(***************************************************************************)
\* the objects each archive was written from, in order
ArchiveObjects ==
    [A |-> << Obj("WatchEvent", "1", FALSE), Obj("PushEvent", "2", TRUE),
              Obj("WatchEvent", "3", FALSE), Obj("PushEvent", "4", FALSE),
              Obj("WatchEvent", "5", TRUE) >>,
     B |-> << Obj("IssuesEvent", "1", TRUE), Obj("FollowEvent", "2", FALSE) >>,
     OLD |-> << Obj("PushEvent", "9", FALSE) >>,
     EMPTY |-> << >>,
     LINES |-> << Obj("PushEvent", "1", FALSE), Obj("WatchEvent", "2", FALSE) >>,
     UNTYPED |-> << Obj("WatchEvent", "1", FALSE), Obj(None, "2", FALSE),
                    Obj("PushEvent", "3", FALSE) >>,
     TEXT |-> << >>]

\* the JSON text of one object
Dumps(o) ==
    <<"{">>
    \o (IF o.type = None THEN <<>> ELSE <<"type", o.type>>)
    \o <<"id", o.id>>
    \o (IF o.nested THEN <<"payload", "{", "}">> ELSE <<>>)
    \o <<"}">>

\* what follows each object in the archive: nothing, except in LINES, which
\* was written one object per line
Separator(content) == IF content = "LINES" THEN <<"\n">> ELSE <<>>

RECURSIVE Concatenated(_, _)
Concatenated(objs, sep) ==
    IF objs = <<>> THEN <<>>
    ELSE Dumps(objs[1]) \o sep \o Concatenated(Tail(objs), sep)

\* TEXT is a file that is no gzip stream
IsGzip(content) == content # "TEXT"

\* line 121: the decompressed bytes of an archive
GzData(content) == Concatenated(ArchiveObjects[content], Separator(content))

\* lines 121 and 124 for every archive of the world: its bytes, and what
\* raw_decode gives at each index of them
Buffers == [c \in DOMAIN ArchiveObjects |-> GzData(c)]

Decodings ==
    [c \in DOMAIN ArchiveObjects |->
        [idx \in 0..Len(Buffers[c]) |-> RawDecode(Buffers[c], idx)]]

\* the longest file list
MaxEntries == 2

\* the entries of a file list:
\*   "user,missing.json.gz,a.json.gz"   "user/b.json.gz"   "user/zz.json.gz"
\*   "nodir,a.json.gz"                  "user,,b.json.gz,b.json.gz"
Entries ==
    { <<"user", ",", "missing.json.gz", ",", "a.json.gz">>,
      <<"user", "/", "b.json.gz">>,
      <<"user", "/", "zz.json.gz">>,
      <<"nodir", ",", "a.json.gz">>,
      <<"user", ",", ",", "b.json.gz", ",", "b.json.gz">> }

FileLists == UNION { [1..n -> Entries] : n \in 0..MaxEntries }

\* 2012-04-05-00 and 2012-4-05-2
MainDates ==
    { <<"2","0","1","2","-","0","4","-","0","5","-","0","0">>,
      <<"2","0","1","2","-","4","-","0","5","-","2">> }

ModeValues(k) ==
    CASE k = "url" -> {Str("http://host/x.json.gz"), NoneV}
      [] k = "arch_date" -> {Txt(e) : e \in MainDates}
      [] k = "src_dir" -> {PathV(<<"user">>), PathV(<<"nodir">>), NoneV,
                           PathV(<<"lines">>), PathV(<<"untyped">>),
                           PathV(<<"blank">>), PathV(<<"plain">>),
                           PathV(<<"raw">>), PathV(<<"many">>)}
      [] k = "zip" -> {Str("good.zip"), Str("bad.zip")}
      [] k = "files" -> {ListV(l) : l \in FileLists}

DefaultValue(k) ==
    CASE k = "url" -> Str("http://host/x.json.gz")
      [] k = "arch_date" ->
           Txt(<<"2","0","1","2","-","0","4","-","0","5","-","0","0">>)
      [] k = "src_dir" -> PathV(<<"user">>)
      [] k = "zip" -> Str("good.zip")
      [] k = "files" -> ListV(<< <<"user", "/", "b.json.gz">> >>)

TempMaps ==
    {<<>>} \cup {("temp" :> v) : v \in {NoneV, PathV(<<"work">>), PathV(<<"user">>)}}

\* a file list is tried with the default and with one other working directory
TempMapsFor(m) ==
    IF m = "files" THEN {<<>>, ("temp" :> PathV(<<"work">>))} ELSE TempMaps

\* the mappings a caller of the library passes: one mode, with or without
\* temp and delete_temp, or with a key the code does not know
LibArgs ==
    UNION { { (m :> v) @@ t @@ d :
                v \in ModeValues(m), t \in TempMapsFor(m),
                d \in {<<>>, ("delete_temp" :> BoolV(TRUE)),
                       ("delete_temp" :> BoolV(FALSE))} } : m \in Modes }
    \cup
    UNION { { (m :> v) @@ ("verbose" :> BoolV(TRUE)) : v \in ModeValues(m) } :
            m \in Modes }
    \cup
    { [k \in S |-> DefaultValue(k)] @@ t @@ d :
        S \in {M \in SUBSET Modes : Cardinality(M) # 1},
        t \in {<<>>, ("temp" :> PathV(<<"work">>))},
        d \in {<<>>, ("delete_temp" :> BoolV(TRUE))} }

\* populate_db.py 195-216: the mappings the command line parser produces:
\* one of -s, -z, -f (a value left out gives None, or [] for -f), -t when
\* given, and delete_temp always
MainArgs ==
    UNION { { (m :> v) @@ t @@ ("delete_temp" :> BoolV(b)) :
                v \in ModeValues(m) \cup (IF m = "files" THEN {} ELSE {NoneV}),
                t \in TempMapsFor(m), b \in BOOLEAN } :
            m \in {"src_dir", "zip", "files"} }

\* the directories and files before the run: the user's directory with two
\* archives; directories with an archive written one object per line, one
\* with an object that has no type, one with an empty archive, one with no
\* archive, one with an archive that is no gzip stream and one with eleven
\* archives, two of them with a record; the default and
\* the override working directories either absent or left over from an
\* earlier run
WorldDirs(stale) ==
    {<<"user">>, <<"lines">>, <<"untyped">>, <<"blank">>, <<"plain">>, <<"raw">>,
     <<"many">>}
    \cup (IF stale THEN {TEMP_LOCATION, <<"work">>} ELSE {})

WorldFiles(stale) ==
    (<<"user", "/", "a.json.gz">> :> "A") @@ (<<"user", "/", "b.json.gz">> :> "B")
    @@ (<<"lines", "/", "a.json.gz">> :> "OLD") @@ (<<"lines", "/", "c.json.gz">> :> "LINES")
    @@ (<<"untyped", "/", "d.json.gz">> :> "UNTYPED")
    @@ (<<"blank", "/", "e.json.gz">> :> "EMPTY") @@ (<<"blank", "/", "a.json.gz">> :> "OLD")
    @@ (<<"plain", "/", "notes.txt">> :> "TEXT")
    @@ (<<"raw", "/", "zz.json.gz">> :> "TEXT")
    @@ [p \in {<<"many", "/", n>> : n \in ManyNames} |->
          IF p[3] \in {"m01.json.gz", "m10.json.gz"} THEN "OLD" ELSE "EMPTY"]
    @@ (IF stale
        THEN (PathJoin(TEMP_LOCATION, <<"old.json.gz">>) :> "OLD")
             @@ (<<"work", "/", "old.json.gz">> :> "OLD")
        ELSE <<>>)

(***************************************************************************)
(* populate_events step by step.                                           *)
(***************************************************************************)
\* the clock of a run
RunClock == <<2026, 11, 6, 9, 1>>

\* validate_date is not running
DateIdle ==
    /\ arch_date = <<>> /\ dpc = "idle"
    /\ lower = <<>> /\ upper = <<>>
    /\ lowerInt = <<>> /\ upperInt = <<>>
    /\ ret = None

Init ==
    /\ DateIdle
    /\ now = RunClock
    /\ raised = NoError
    /\ flog = <<>>
    /\ is_main \in BOOLEAN
    /\ given \in (IF is_main THEN MainArgs ELSE LibArgs)
    /\ ap_args = given
    /\ pc = (IF is_main THEN "check_none" ELSE "check_params")
    /\ arg = None /\ arch_path = <<>> /\ del_arch_path = NoneV
    /\ entry_idx = 0 /\ gzs = {}
    /\ \E stale \in BOOLEAN :
         /\ dirs = WorldDirs(stale)
         /\ fs = WorldFiles(stale)
    /\ fs_prev = fs
    /\ calls = <<>> /\ printed = <<>> /\ store = <<>>
    /\ PopulateIdle

Call(fn, path, src) == [fn |-> fn, path |-> path, src |-> src]

\* an exception leaves populate_events
Fail(e) ==
    /\ pc' = "failed"
    /\ raised' = e
    /\ flog' = Append(flog, e)

Goto(next) ==
    /\ pc' = next
    /\ UNCHANGED <<raised, flog>>

\* lines 149-150 with 39-61: only when imported as a library
CheckIfParams ==
    /\ pc = "check_params"
    /\ UNCHANGED <<dateVars, popVars, now, worldVars, is_main, given, arg, arch_path,
                   del_arch_path, entry_idx, gzs>>
    /\ LET kept == Filtered(ap_args)
       IN IF ArgsLen(kept) = 0
          THEN Fail(GISCError("ImproperArgsError", "NO_ARG",
                              <<Str("__file__")>>, NoneV))
               /\ UNCHANGED ap_args
          ELSE IF ArgsLen(kept) > 1
          THEN Fail(GISCError("ImproperArgsError", "MULTIPLE_ARG",
                              <<KeysOf(kept)>>, NoneV))
               /\ UNCHANGED ap_args
          ELSE ap_args' = kept /\ Goto("check_none")

\* lines 151-152 with 64-80
CheckArgForNoneValue ==
    /\ pc = "check_none"
    /\ UNCHANGED <<dateVars, popLocals, now, worldVars, is_main, given, ap_args,
                   arg, arch_path, del_arch_path, entry_idx, gzs>>
    /\ IF NoneValueArgs(ap_args) # {}
       THEN /\ Fail(GISCError("ImproperArgsError", "NON_FINITE_ARGS", <<>>,
                              Keys(NoneValueArgs(ap_args))))
            /\ UNCHANGED clog
       ELSE /\ clog' = Append(clog, [msg |-> "args", n |-> 0, err |-> NoError])
            /\ Goto("select")

\* line 158: the first key, in the dictionary's iteration order, that is not
\* 'temp'; the order of a dict is arbitrary
FirstKeys(args) == {k \in DOMAIN args : k # "temp"}

\* lines 154-158
SelectArg ==
    /\ pc = "select"
    /\ UNCHANGED <<dateVars, popVars, now, worldVars, is_main, given, ap_args,
                   entry_idx, gzs>>
    /\ arch_path' = (IF "temp" \in DOMAIN ap_args /\ Truthy(ap_args["temp"])
                     THEN ap_args["temp"].path ELSE TEMP_LOCATION)
    /\ del_arch_path' = (IF "delete_temp" \in DOMAIN ap_args
                         THEN ap_args["delete_temp"] ELSE NoneV)
    /\ \E k \in FirstKeys(ap_args) : arg' = k
    /\ Goto("acquire")

\* lines 160-162; download (utils.py 136-143) prints and stores nothing
AcquireUrl ==
    /\ pc = "acquire" /\ arg = "url"
    /\ UNCHANGED <<dateVars, popVars, now, is_main, given, ap_args, arg, arch_path,
                   del_arch_path, entry_idx, gzs, fs_prev, printed, store>>
    /\ dirs' = EmptiedDirs(dirs, arch_path, TRUE)
    /\ fs' = EmptiedFiles(dirs, fs, arch_path)
    /\ calls' = calls \o << Call("empty_directory", arch_path, BoolV(TRUE)),
                            Call("download", arch_path, ap_args[arg]) >>
    /\ Goto("populate")

\* lines 163-165 with 83-92: the directory is emptied, then the date is
\* validated, then download is called
AcquireDate ==
    /\ pc = "acquire" /\ arg = "arch_date"
    /\ UNCHANGED <<dateVars, popVars, now, is_main, given, ap_args, arg, arch_path,
                   del_arch_path, entry_idx, gzs, fs_prev, printed, store>>
    /\ dirs' = EmptiedDirs(dirs, arch_path, TRUE)
    /\ fs' = EmptiedFiles(dirs, fs, arch_path)
    /\ LET v == ValidateDate(ap_args[arg].text, now)
       IN IF v.err # NoError
          THEN /\ Fail(v.err)
               /\ calls' = Append(calls, Call("empty_directory", arch_path, BoolV(TRUE)))
          ELSE /\ Goto("populate")
               /\ calls' = calls \o
                    << Call("empty_directory", arch_path, BoolV(TRUE)),
                       Call("download", arch_path, Txt(v.value)) >>

\* lines 166-167
AcquireSrcDir ==
    /\ pc = "acquire" /\ arg = "src_dir"
    /\ UNCHANGED <<dateVars, popVars, now, worldVars, is_main, given, ap_args, arg,
                   del_arch_path, entry_idx, gzs>>
    /\ arch_path' = ap_args[arg].path
    /\ Goto("populate")

\* lines 168-169 with utils.py 194-207
AcquireZip ==
    /\ pc = "acquire" /\ arg = "zip"
    /\ UNCHANGED <<dateVars, popVars, now, is_main, given, ap_args, arg, arch_path,
                   del_arch_path, entry_idx, gzs, fs_prev, printed, store>>
    /\ IF IsZipFile(ap_args[arg])
       THEN /\ dirs' = dirs \cup {arch_path}
            /\ fs' = Extracted(fs, ap_args[arg], arch_path)
            /\ calls' = Append(calls, Call("extract_zip", arch_path, ap_args[arg]))
            /\ Goto("populate")
       ELSE /\ Fail(GISCError("BadZIPError", "BAD_ZIP", <<ap_args[arg]>>, NoneV))
            /\ calls' = Append(calls, Call("extract_zip", arch_path, ap_args[arg]))
            /\ UNCHANGED <<dirs, fs>>

\* line 171
AcquireFiles ==
    /\ pc = "acquire" /\ arg = "files"
    /\ UNCHANGED <<dateVars, popVars, now, is_main, given, ap_args, arg, arch_path,
                   del_arch_path, gzs, printed, store>>
    /\ dirs' = EmptiedDirs(dirs, arch_path, TRUE)
    /\ fs' = EmptiedFiles(dirs, fs, arch_path)
    /\ fs_prev' = fs'
    /\ calls' = Append(calls, Call("empty_directory", arch_path, BoolV(TRUE)))
    /\ entry_idx' = 0
    /\ Goto("files")

\* line 172 with utils.py 162-191: map() hands the next entry to
\* handle_valid_invalid_files, which builds the error, raises it, catches it
\* and prints it, whatever the list of invalid names holds
HandleFile ==
    /\ pc = "files"
    /\ UNCHANGED <<dateVars, popVars, now, is_main, given, ap_args, arg, arch_path,
                   del_arch_path, gzs, dirs, store, raised>>
    /\ LET entry == ap_args[arg].list[entry_idx + 1]
           head == IF EntryPathInvalid(dirs, fs, entry)
                   THEN <<EntryPath(fs, entry)>> ELSE <<>>
       IN \E q \in Orders(EntryMissing(fs, entry)) :
            LET e == GISCError("InvalidArchFileError", "INVALID_FILES",
                               <<ListV(EntryPieces(entry)), ListV(head \o q)>>, NoneV)
            IN /\ fs_prev' = fs
               /\ fs' = Copied(fs, entry, arch_path)
               /\ flog' = Append(flog, e)
               /\ printed' = Append(printed, e)
               /\ calls' = Append(calls,
                    Call("handle_valid_invalid_files", arch_path, Txt(entry)))
    /\ entry_idx' = entry_idx + 1
    /\ pc' = (IF entry_idx + 1 = Len(ap_args[arg].list) THEN "populate" ELSE "files")

\* lines 160-172: arg is none of the five modes, no branch is taken
AcquireNothing ==
    /\ pc = "acquire" /\ arg \notin Modes
    /\ UNCHANGED <<dateVars, popVars, now, worldVars, is_main, given, ap_args, arg,
                   arch_path, del_arch_path, entry_idx, gzs>>
    /\ Goto("populate")

\* an exception that is no GISCError leaves populate and populate_events
Swallow(e) ==
    /\ pc' = "flush"
    /\ raised' = e
    /\ UNCHANGED flog

Propagate(e) ==
    /\ pc' = "failed"
    /\ raised' = e
    /\ UNCHANGED flog

\* lines 173 and 110-118
PopulateCheck ==
    /\ pc = "populate"
    /\ UNCHANGED <<dateVars, popVars, now, is_main, given, ap_args, arg,
                   arch_path, del_arch_path, entry_idx, dirs, fs, fs_prev,
                   printed, store>>
    /\ calls' = Append(calls, Call("populate", arch_path, Str("")))
    /\ IF arch_path \notin dirs
       THEN Fail(GISCError("InvalidArchPathError", "DIR_PATH",
                           <<PathV(arch_path)>>, NoneV))
            /\ UNCHANGED gzs
       ELSE IF Glob(fs, arch_path) = {}
       THEN Fail(GISCError("NoArchiveFilesError", "EMPTY_DIR",
                           <<PathV(arch_path)>>, NoneV))
            /\ UNCHANGED gzs
       ELSE gzs' = Glob(fs, arch_path) /\ Goto("loop")

\* lines 119-122: the next file of the listing is opened and read
PopulateOpen ==
    /\ pc = "loop" /\ gzs # {}
    /\ UNCHANGED <<dateVars, now, runLocals, worldVars, populated, clog>>
    /\ \E f \in Yielded(gzs) :
         /\ gzs' = gzs \ {f}
         /\ gz' = f
         /\ opened' = Append(opened, f)
         /\ IF IsGzip(fs[f]) THEN Goto("decode") ELSE Propagate(PyError("IOError"))
    /\ end' = 0 /\ events' = <<>> /\ gz_events' = <<>> /\ flush' = {}

\* lines 123-129: one turn of the while loop
DecodeStepWritingThrough ==
    /\ pc = "decode" /\ end # Len(Buffers[fs[gz]])
    /\ UNCHANGED <<dateVars, now, runLocals, gzs, dirs, fs, fs_prev, calls,
                   printed, gz, flush, populated, opened, clog>>
    /\ LET r == Decodings[fs[gz]][end]
       IN IF ~r.ok
          THEN /\ Propagate(PyError("ValueError"))
               /\ UNCHANGED <<end, events, gz_events, store>>
          ELSE /\ end' = r.end
               /\ gz_events' = Append(gz_events, r.obj)
               /\ IF r.obj.type = None
                  THEN /\ Propagate(PyError("KeyError"))
                       /\ UNCHANGED <<events, store>>
                  ELSE /\ events' = events
                       /\ store' = (IF Allowed(r.obj)
                                    THEN store \o GroupWrites(r.obj.type, <<r.obj>>, gz)
                                    ELSE store)
                       /\ Goto("decode")

DecodeStep ==
    /\ pc = "decode" /\ end # Len(Buffers[fs[gz]])
    /\ UNCHANGED <<dateVars, now, runLocals, gzs, worldVars, gz, flush,
                   populated, opened, clog>>
    /\ LET r == Decodings[fs[gz]][end]
       IN IF ~r.ok
          THEN /\ Propagate(PyError("ValueError"))
               /\ UNCHANGED <<end, events, gz_events>>
          ELSE /\ end' = r.end
               /\ gz_events' = Append(gz_events, r.obj)
               /\ IF r.obj.type = None
                  THEN Propagate(PyError("KeyError")) /\ UNCHANGED events
                  ELSE events' = Grouped(events, r.obj) /\ Goto("decode")

\* line 123 false, line 130: the for loop over _events begins
DecodeEnd ==
    /\ pc = "decode" /\ end = Len(Buffers[fs[gz]])
    /\ UNCHANGED <<dateVars, now, runLocals, gzs, worldVars, gz, end, events,
                   gz_events, populated, opened, clog>>
    /\ flush' = DOMAIN events
    /\ Goto("flush")

\* lines 130-134: the next key of _events, in the dictionary's order; each
\* of the two inserts is accepted by the database or raises
FlushGroupCatchAllAnyway ==
    /\ pc = "flush" /\ flush # {}
    /\ UNCHANGED <<dateVars, now, runLocals, gzs, dirs, fs, fs_prev, calls,
                   printed, gz, end, events, gz_events, populated, opened, clog>>
    /\ \E k \in flush :
         /\ flush' = flush \ {k}
         /\ IF events[k] = <<>>
            THEN UNCHANGED store /\ Goto("flush")
            ELSE \E n \in 0..2 :
                   /\ store' = store \o SubSeq(GroupWrites(k, events[k], gz), 3 - n, 2)
                   /\ IF n < 2 THEN Propagate(PyError("PyMongoError"))
                      ELSE Goto("flush")

FlushGroup ==
    /\ pc = "flush" /\ flush # {}
    /\ UNCHANGED <<dateVars, now, runLocals, gzs, dirs, fs, fs_prev, calls,
                   printed, gz, end, events, gz_events, populated, opened, clog>>
    /\ \E k \in flush :
         /\ flush' = flush \ {k}
         /\ IF events[k] = <<>>
            THEN UNCHANGED store /\ Goto("flush")
            ELSE \E n \in 0..2 :
                   /\ store' = store \o Take(GroupWrites(k, events[k], gz), n)
                   /\ IF n < 2 THEN Propagate(PyError("PyMongoError"))
                      ELSE Goto("flush")

\* lines 135-136: the file is done
FileDone ==
    /\ pc = "flush" /\ flush = {}
    /\ UNCHANGED <<dateVars, now, runLocals, gzs, worldVars, gz, end, events,
                   flush, gz_events, opened>>
    /\ populated' = populated + 1
    /\ clog' = (IF Progress(populated + 1)
                THEN Append(clog, [msg |-> "populated", n |-> populated + 1,
                                   err |-> NoError])
                ELSE clog)
    /\ Goto("loop")

\* line 139
PopulateEnd ==
    /\ pc = "loop" /\ gzs = {}
    /\ UNCHANGED <<dateVars, now, runLocals, gzs, worldVars, popLocals>>
    /\ clog' = Append(clog, [msg |-> "total", n |-> populated, err |-> NoError])
    /\ Goto("delete")

\* lines 174-175
DeleteAfter ==
    /\ pc = "delete"
    /\ UNCHANGED <<dateVars, popVars, now, is_main, given, ap_args, arg, arch_path,
                   del_arch_path, entry_idx, gzs, fs_prev, printed, store>>
    /\ IF arg # "src_dir" /\ Truthy(del_arch_path)
       THEN /\ dirs' = EmptiedDirs(dirs, arch_path, FALSE)
            /\ fs' = EmptiedFiles(dirs, fs, arch_path)
            /\ calls' = Append(calls, Call("empty_directory", arch_path, BoolV(FALSE)))
       ELSE UNCHANGED <<dirs, fs, calls>>
    /\ Goto("done")

\* lines 241-244: the command line entry point catches the DBPopulateError
\* family and logs it
EntryCatch ==
    /\ pc = "failed" /\ is_main
    /\ raised.cls \in DBPopulateFamily
    /\ UNCHANGED <<dateVars, now, runLocals, gzs, worldVars, popLocals, raised,
                   flog>>
    /\ clog' = Append(clog, [msg |-> "error", n |-> 0, err |-> raised])
    /\ pc' = "exit"

\* lines 241-244: any other exception leaves the program with a traceback
EntryUncaught ==
    /\ pc = "failed" /\ is_main
    /\ raised.cls \notin DBPopulateFamily
    /\ UNCHANGED <<dateVars, now, runLocals, gzs, worldVars, popVars, raised,
                   flog>>
    /\ pc' = "traceback"

Next ==
    \/ CheckIfParams \/ CheckArgForNoneValue \/ SelectArg
    \/ AcquireUrl \/ AcquireDate \/ AcquireSrcDir \/ AcquireZip
    \/ AcquireFiles \/ HandleFile \/ AcquireNothing
    \/ PopulateCheck \/ PopulateOpen \/ DecodeStep \/ DecodeEnd
    \/ FlushGroup \/ FileDone \/ PopulateEnd \/ DeleteAfter
    \/ EntryCatch \/ EntryUncaught

Spec == Init /\ [][Next]_vars

(***************************************************************************)
(* The loop of populate on its own: populate_events was given a directory  *)
(* that holds archives, by a library caller or from the command line, and  *)
(* populate has listed it.                                                 *)
(***************************************************************************)
\* the directories of the world that hold an archive
ArchiveDirs ==
    {<<"user">>, <<"lines">>, <<"untyped">>, <<"blank">>, <<"raw">>, <<"many">>}

\* lines 142-173 and 110-118 have run for a src_dir
LoopInit ==
    /\ DateIdle
    /\ now = RunClock
    /\ raised = NoError
    /\ flog = <<>>
    /\ is_main \in BOOLEAN
    /\ \E d \in ArchiveDirs, b \in BOOLEAN, stale \in BOOLEAN :
         /\ given = (IF is_main
                     THEN ("src_dir" :> PathV(d)) @@ ("delete_temp" :> BoolV(b))
                     ELSE ("src_dir" :> PathV(d)))
         /\ del_arch_path = (IF is_main THEN BoolV(b) ELSE NoneV)
         /\ arch_path = d
         /\ dirs = WorldDirs(stale)
         /\ fs = WorldFiles(stale)
         /\ calls = <<Call("populate", d, Str(""))>>
    /\ ap_args = given
    /\ arg = "src_dir"
    /\ entry_idx = 0
    /\ gzs = Glob(fs, arch_path)
    /\ pc = "loop"
    /\ fs_prev = fs
    /\ printed = <<>> /\ store = <<>>
    /\ gz = <<>> /\ end = 0
    /\ events = <<>> /\ flush = {} /\ gz_events = <<>>
    /\ populated = 0 /\ opened = <<>>
    /\ clog = <<[msg |-> "args", n |-> 0, err |-> NoError]>>

LoopNext ==
    \/ PopulateOpen \/ DecodeStep \/ DecodeEnd
    \/ FlushGroup \/ FileDone \/ PopulateEnd \/ DeleteAfter
    \/ EntryUncaught

\* the interpreter runs the program on: a step that can be taken is taken
SpecLoop == LoopInit /\ [][LoopNext]_vars /\ WF_vars(LoopNext)

(***************************************************************************)
(* Claims about populate_events, checked under Spec.                       *)
(***************************************************************************)
\* the source modes the caller supplied
GivenModes == DOMAIN given \cap Modes

OneMode == Cardinality(GivenModes) = 1

TheMode == CHOOSE m \in GivenModes : TRUE

FlagGiven == "delete_temp" \in DOMAIN given /\ given["delete_temp"] = BoolV(TRUE)

\* the working directory the caller asked for
WorkingDir ==
    IF "temp" \in DOMAIN given /\ Truthy(given["temp"])
    THEN given["temp"].path ELSE TEMP_LOCATION

ArgumentError(code) ==
    /\ pc = "failed"
    /\ raised.cls = "ImproperArgsError"
    /\ raised.code = code
    /\ raised.template = code

\* C1: check_if_params accepts a mapping iff it names exactly one of the
\* five source modes, temp and delete_temp not counted; with none it raises
\* the argument error NO_ARG, with two or more MULTIPLE_ARG, and then no
\* acquisition step is made and nothing is written.
C1_ExactlyOneMode ==
    (~is_main /\ pc # "check_params") =>
        /\ OneMode <=> raised.code \notin {"NO_ARG", "MULTIPLE_ARG"}
        /\ Cardinality(GivenModes) = 0 =>
             ArgumentError("NO_ARG") /\ calls = <<>> /\ store = <<>>
        /\ Cardinality(GivenModes) > 1 =>
             ArgumentError("MULTIPLE_ARG") /\ calls = <<>> /\ store = <<>>

\* one mode with both temp and delete_temp is accepted
C1_Witness ==
    /\ ~is_main /\ pc = "check_none"
    /\ OneMode
    /\ {"temp", "delete_temp"} \subseteq DOMAIN given
    /\ raised = NoError

C1_WitnessNone ==
    ~is_main /\ GivenModes = {} /\ "temp" \in DOMAIN given /\ ArgumentError("NO_ARG")

C1_WitnessMany ==
    ~is_main /\ Cardinality(GivenModes) = 2 /\ ArgumentError("MULTIPLE_ARG")

\* C2: for every mapping with exactly one source mode, from the library or
\* from the command line, populate_events takes the acquisition steps of
\* that mode, and populate reads the directory that mode produced.
C2_RunsSuppliedMode ==
    (OneMode /\ pc \in {"files", "populate", "loop", "delete", "done"}) =>
        /\ arg = TheMode
        /\ arch_path = (IF TheMode = "src_dir" THEN given["src_dir"].path
                        ELSE WorkingDir)

\* C3: in Directory mode no step of populate_events clears, recreates or
\* deletes the directory the user supplied.
C3_UserDirectoryKept ==
    (OneMode /\ TheMode = "src_dir" /\ Truthy(given["src_dir"])) =>
        /\ given["src_dir"].path \in dirs <=>
             given["src_dir"].path \in WorldDirs(FALSE)
        /\ \A i \in 1..Len(calls) :
             calls[i].fn = "empty_directory" =>
                calls[i].path # given["src_dir"].path

\* C4: after a completed run in url, date, zip or file-list mode the working
\* directory has been deleted iff the delete-after flag was supplied as
\* true, on the library path as on the command line.
C4_DeletedIffFlag ==
    (pc = "done" /\ OneMode /\ TheMode \in {"url", "arch_date", "zip", "files"}) =>
        (arch_path \notin dirs <=> FlagGiven)

\* some name of the list was reported as not existing
SomeUnresolved == \E i \in 1..Len(printed) : printed[i].args[2].list # <<>>

\* map() is through with the file list
ListHandled ==
    /\ arg = "files"
    /\ pc \in {"populate", "loop", "delete", "done", "failed"}
    /\ entry_idx = Len(ap_args["files"].list)

\* C5: in FileList mode, if a name of the list does not resolve, one
\* FileResolutionError leaves populate_events after all entries were
\* examined and populate is not run; if every name resolves no such error is
\* created.
C5_SingleErrorRaised ==
    ListHandled =>
        IF SomeUnresolved
        THEN /\ pc = "failed"
             /\ raised.cls = "InvalidArchFileError"
             /\ store = <<>>
             /\ \A i \in 1..Len(calls) : calls[i].fn # "populate"
        ELSE \A i \in 1..Len(flog) : flog[i].cls # "InvalidArchFileError"

\* the entry map() handled last, its destination, and what it printed
LastEntry == ap_args["files"].list[entry_idx]

LastReported == Range(printed[Len(printed)].args[2].list)

\* the base directory and the file names an entry names: the text before the
\* first comma and the non-empty texts after it, or, for a single path, the
\* directory part and the last name
EntryHasComma(e) == \E i \in 1..Len(e) : e[i] = ","

FirstComma(e) == CHOOSE i \in 1..Len(e) : e[i] = "," /\ \A j \in 1..(i - 1) : e[j] # ","

NamedBase(e) ==
    IF EntryHasComma(e) THEN SubSeq(e, 1, FirstComma(e) - 1)
    ELSE SubSeq(e, 1, Len(e) - 2)

NamedFiles(e) ==
    IF EntryHasComma(e)
    THEN {<<e[i]>> : i \in {j \in (FirstComma(e) + 1)..Len(e) : e[j] # ","}}
    ELSE {<<e[Len(e)]>>}

JustHandled == arg = "files" /\ pc \in {"files", "populate"} /\ entry_idx >= 1

\* C6: handle_valid_invalid_files copies into the destination exactly the
\* named files that exist and reports exactly the named files that do not
\* (with the base, when that is no directory); an unresolved name stops
\* neither the other names of the entry nor the later entries.
C6_CopiesExistingReportsMissing ==
    JustHandled =>
        LET base == NamedBase(LastEntry)
            names == NamedFiles(LastEntry)
            from(n) == base \o <<"/">> \o n
            to(n) == arch_path \o <<"/">> \o n
            exists(n) == from(n) \in DOMAIN fs_prev
            reported(n) == n \in LastReported \/ from(n) \in LastReported
        IN /\ \A n \in names :
                IF exists(n)
                THEN /\ to(n) \in DOMAIN fs
                     /\ fs[to(n)] = fs_prev[from(n)]
                     /\ ~reported(n)
                ELSE /\ reported(n)
                     /\ to(n) \in DOMAIN fs =>
                          to(n) \in DOMAIN fs_prev /\ fs[to(n)] = fs_prev[to(n)]
           /\ \A p \in DOMAIN fs :
                (p \notin DOMAIN fs_prev \/ fs[p] # fs_prev[p]) =>
                    \E n \in names : exists(n) /\ p = to(n)
           /\ DOMAIN fs_prev \subseteq DOMAIN fs
           /\ \A r \in LastReported :
                \/ \E n \in names : ~exists(n) /\ (r = n \/ r = from(n))
                \/ r = base /\ base \notin dirs
           /\ raised = NoError
           /\ pc = "files" <=> entry_idx < Len(ap_args["files"].list)

\* the entry "user,missing.json.gz,a.json.gz" handled as the first of two:
\* a.json.gz is copied although missing.json.gz came first, and the second
\* entry is still to be handled
C6_Witness ==
    /\ JustHandled /\ pc = "files"
    /\ LastEntry = <<"user", ",", "missing.json.gz", ",", "a.json.gz">>
    /\ (arch_path \o <<"/", "a.json.gz">>) \in DOMAIN fs
    /\ (arch_path \o <<"/", "a.json.gz">>) \notin DOMAIN fs_prev
    /\ LastReported = {<<"missing.json.gz">>}

(***************************************************************************)
(* Claims about populate, checked under Spec.                              *)
(***************************************************************************)
\* the archive is gzip data holding its objects one after the other with
\* nothing between them, each with a type
Delimiterless(content) ==
    /\ IsGzip(content)
    /\ Separator(content) = <<>>
    /\ \A k \in 1..Len(ArchiveObjects[content]) :
         ArchiveObjects[content][k].type # None

\* populate is inside the loop body for the file gz
InFile == pc \in {"decode", "flush"}

\* the while loop of the file gz has ended
Decoded == pc = "flush"

DecodeFailure == raised.cls \in {"ValueError", "KeyError"}

\* C11: for a buffer that is N JSON objects one after the other with no
\* separator (N = 0, 1 or more), the decode loop never fails, what it has
\* decoded at any moment is the first objects of the buffer, in order and
\* equal to them, with the cursor right after the last of them, and when
\* the loop ends it has decoded all N and the cursor is the buffer length.
C11_DecodesEveryObject ==
    (gz # <<>> /\ gz \in DOMAIN fs /\ Delimiterless(fs[gz])) =>
        /\ ~DecodeFailure
        /\ Len(gz_events) <= Len(ArchiveObjects[fs[gz]])
        /\ gz_events = SubSeq(ArchiveObjects[fs[gz]], 1, Len(gz_events))
        /\ end = Len(Concatenated(gz_events, <<>>))
        /\ Decoded =>
             /\ gz_events = ArchiveObjects[fs[gz]]
             /\ end = Len(GzData(fs[gz]))

\* five objects, two of them with an object inside, were decoded
C11_Witness ==
    /\ Decoded /\ fs[gz] = "A"
    /\ Len(gz_events) = 5 /\ gz_events[2].nested
    /\ end = Len(GzData("A"))

\* an archive with no object and one with a single object were decoded
C11_WitnessNone == Decoded /\ fs[gz] = "EMPTY" /\ gz_events = <<>> /\ end = 0

C11_WitnessOne == Decoded /\ fs[gz] = "OLD" /\ Len(gz_events) = 1

\* the records of type t among the decoded ones, in order
OfType(recs, t) ==
    LET IsT(r) == r.type = t IN SelectSeq(recs, IsT)

\* the batch of type t
Batch(t) == IF t \in DOMAIN events THEN events[t] ELSE <<>>

\* C12: a record whose type is not in the allow-list is in no batch and in
\* no write, to a type collection or to the catch-all; the batch of each
\* allowed type holds exactly the decoded records of that type, and a write
\* to a type collection holds records of that type only.
C12_OnlyAllowedTypesWritten ==
    /\ DOMAIN events \subseteq POPULARITY_EVENTS
    /\ \A t \in POPULARITY_EVENTS : Batch(t) = OfType(gz_events, t)
    /\ \A w \in 1..Len(store) :
         /\ store[w].coll \in POPULARITY_EVENTS \cup {ALL_COLL}
         /\ \A d \in 1..Len(store[w].docs) :
              /\ store[w].docs[d].type \in POPULARITY_EVENTS
              /\ store[w].coll \in {store[w].docs[d].type, ALL_COLL}

\* an archive with a record of a type outside the list and one inside it
\* was decoded and written
C12_Witness ==
    /\ pc = "flush" /\ flush = {} /\ fs[gz] = "B"
    /\ \E k \in 1..Len(gz_events) : gz_events[k].type = "IssuesEvent"
    /\ \E w \in 1..Len(store) :
         store[w].gz = gz /\ store[w].coll = "FollowEvent"

\* the positions in the store of the writes made for file f
WritesOf(f) == {w \in 1..Len(store) : store[w].gz = f}

\* the retained types that have a record in the archive
TypesIn(content) ==
    {t \in POPULARITY_EVENTS : OfType(ArchiveObjects[content], t) # <<>>}

\* the files whose loop body has run to its end
Processed == {opened[k] : k \in 1..populated}

\* C13: once the loop body of a file has ended, each retained type with a
\* record in the file has exactly one write to its own collection and
\* exactly one write to the catch-all, both holding the file's records of
\* that type, and the file has no other write (so a type with no record has
\* none); and at any moment a write to the catch-all comes right after the
\* write of the same records to their type collection.
C13_TypeWriteThenCatchAll ==
    /\ \A f \in Processed \cap DOMAIN fs :
         /\ Cardinality(WritesOf(f)) = 2 * Cardinality(TypesIn(fs[f]))
         /\ \A t \in TypesIn(fs[f]) :
              /\ Cardinality({w \in WritesOf(f) : store[w].coll = t}) = 1
              /\ Cardinality({w \in WritesOf(f) :
                    /\ store[w].coll = ALL_COLL
                    /\ store[w].docs = OfType(ArchiveObjects[fs[f]], t)}) = 1
              /\ \A w \in WritesOf(f) :
                   store[w].coll = t =>
                       store[w].docs = OfType(ArchiveObjects[fs[f]], t)
    /\ \A w \in 1..Len(store) :
         store[w].coll = ALL_COLL =>
            /\ w > 1
            /\ store[w - 1].coll = store[w].docs[1].type
            /\ store[w - 1].docs = store[w].docs
            /\ store[w - 1].gz = store[w].gz

\* a file with records of two retained types was written, and one with a
\* retained and a discarded type
C13_Witness ==
    /\ \E f \in Processed \cap DOMAIN fs :
         fs[f] = "A" /\ Cardinality(WritesOf(f)) = 4
    /\ \E f \in Processed \cap DOMAIN fs :
         fs[f] = "B" /\ Cardinality(WritesOf(f)) = 2

\* the positions of the writes to the catch-all made for file f
CatchAllWritesOf(f) == {w \in WritesOf(f) : store[w].coll = ALL_COLL}

\* the retained records of an archive
RetainedIn(content) ==
    {k \in 1..Len(ArchiveObjects[content]) :
        ArchiveObjects[content][k].type \in POPULARITY_EVENTS}

\* C14 as stated: a processed file with retained records has one write to
\* the catch-all, holding all its retained records (five for the archive
\* with 3 WatchEvent and 2 PushEvent records).
C14_OneCatchAllWritePerFile ==
    \A f \in Processed \cap DOMAIN fs :
        RetainedIn(fs[f]) # {} =>
            /\ Cardinality(CatchAllWritesOf(f)) = 1
            /\ \A w \in CatchAllWritesOf(f) :
                 Len(store[w].docs) = Cardinality(RetainedIn(fs[f]))

\* C14, amended: for the archive with 3 WatchEvent and 2 PushEvent records
\* there is a 3-record write to "WatchEvent", a 2-record write to
\* "PushEvent", and two writes to the catch-all, one of the 3 WatchEvent
\* records and one of the 2 PushEvent records; in general the catch-all
\* receives one write per retained type of the file, and every retained
\* record of the file is in exactly one of them.
C14_CatchAllWritePerType ==
    \A f \in Processed \cap DOMAIN fs :
        /\ Cardinality(CatchAllWritesOf(f)) = Cardinality(TypesIn(fs[f]))
        /\ \A k \in RetainedIn(fs[f]) :
             Cardinality({ww \in CatchAllWritesOf(f) \X (1..Len(ArchiveObjects[fs[f]])) :
                /\ ww[2] <= Len(store[ww[1]].docs)
                /\ store[ww[1]].docs[ww[2]] = ArchiveObjects[fs[f]][k]}) = 1
        /\ fs[f] = "A" =>
             /\ \E w \in WritesOf(f) :
                  store[w].coll = "WatchEvent" /\ Len(store[w].docs) = 3
             /\ \E w \in WritesOf(f) :
                  store[w].coll = "PushEvent" /\ Len(store[w].docs) = 2
             /\ {Len(store[w].docs) : w \in CatchAllWritesOf(f)} = {2, 3}

\* the archive with 3 WatchEvent and 2 PushEvent records was processed
C14_Witness ==
    \E f \in Processed \cap DOMAIN fs :
        /\ fs[f] = "A"
        /\ Len(OfType(ArchiveObjects["A"], "WatchEvent")) = 3
        /\ Len(OfType(ArchiveObjects["A"], "PushEvent")) = 2
        /\ Cardinality(CatchAllWritesOf(f)) = 2

StorageFailed == raised.cls = "PyMongoError"

\* C15: the step in which an insert fails leaves populate and
\* populate_events at once, with at most the write that preceded the failing
\* one added; from then on no write is issued, no file is opened or decoded,
\* and no directory or file is created or deleted.
C15_StorageFailureAborts ==
    [][ /\ (~StorageFailed /\ StorageFailed') =>
              /\ pc' = "failed"
              /\ \/ store' = store
                 \/ /\ Len(store') = Len(store) + 1
                    /\ SubSeq(store', 1, Len(store)) = store
                    /\ store'[Len(store')].coll # ALL_COLL
                    /\ store'[Len(store')].gz = gz
              /\ opened' = opened /\ gz' = gz /\ gzs' = gzs
              /\ dirs' = dirs /\ fs' = fs /\ calls' = calls
        /\ StorageFailed =>
              /\ StorageFailed'
              /\ pc' \in {"failed", "traceback"}
              /\ store' = store
              /\ opened' = opened /\ gz_events' = gz_events /\ end' = end
              /\ dirs' = dirs /\ fs' = fs /\ calls' = calls
      ]_vars

\* an insert of the first of two files failed after a write was accepted, in
\* a run that was to delete its working directory
C15_Witness ==
    /\ StorageFailed /\ pc = "failed"
    /\ store # <<>> /\ gzs # {}
    /\ arg # "src_dir" /\ Truthy(del_arch_path)
    /\ arch_path \in dirs

\* populate was called and the run has not reached its last step
PopulateCalled ==
    /\ \E c \in 1..Len(calls) : calls[c].fn = "populate"
    /\ pc # "done"

\* directory d holds a file whose name ends in .json.gz
HoldsArchive(d) ==
    \E p \in DOMAIN fs :
        /\ Len(p) = Len(d) + 2
        /\ SubSeq(p, 1, Len(d)) = d
        /\ p[Len(d) + 1] = "/"
        /\ p[Len(p)] \in ArchiveNames

PathErrorRaised(cls, code) ==
    /\ raised.cls = cls /\ raised.code = code /\ raised.template = code
    /\ raised.args = <<PathV(arch_path)>>

NothingRead == opened = <<>> /\ gz_events = <<>> /\ store = <<>>

\* C16: when populate is called with a path that is no existing directory it
\* raises the missing-path error, and with a directory that holds no
\* *.json.gz file the emptiness error; in both cases, and in no other, the
\* error is there before any file was opened, any object decoded or any
\* write made.
C16_PathChecksFirst ==
    PopulateCalled =>
        /\ arch_path \notin dirs =>
             PathErrorRaised("InvalidArchPathError", "DIR_PATH") /\ NothingRead
        /\ (arch_path \in dirs /\ ~HoldsArchive(arch_path)) =>
             PathErrorRaised("NoArchiveFilesError", "EMPTY_DIR") /\ NothingRead
        /\ (arch_path \in dirs /\ HoldsArchive(arch_path)) =>
             raised.code \notin {"DIR_PATH", "EMPTY_DIR"}

\* a directory that holds a file, but no archive, was found empty
C16_Witness ==
    /\ PopulateCalled /\ arch_path = <<"plain">>
    /\ <<"plain", "/", "notes.txt">> \in DOMAIN fs
    /\ PathErrorRaised("NoArchiveFilesError", "EMPTY_DIR")

C16_WitnessMissing ==
    /\ PopulateCalled /\ arch_path = <<"nodir">>
    /\ PathErrorRaised("InvalidArchPathError", "DIR_PATH")

\* an exception has ended the run
Aborted == pc \in {"failed", "exit", "traceback"}

\* C17: every exception that ends a run is a DBPopulateError or one of its
\* subclasses, so that a run from the command line ends in the handler of
\* the entry point and never with an uncaught exception.
C17_OnlyFamilyErrorsAbort ==
    Aborted =>
        /\ raised.cls \in DBPopulateFamily
        /\ pc # "traceback"

\* the caller chose the zip mode and named a file that is no zip container
BadZipGiven ==
    /\ OneMode /\ TheMode = "zip"
    /\ Truthy(given["zip"]) /\ ~IsZipFile(given["zip"])

\* the run is past the acquisition step of populate_events
PastAcquire == pc \notin {"check_params", "check_none", "select", "acquire"}

\* the directories and files are as they were before the run
WorldUntouched ==
    \E stale \in BOOLEAN : dirs = WorldDirs(stale) /\ fs = WorldFiles(stale)

\* C18: in zip mode, a file that is no zip container makes the run end with
\* BadZIPError raised by extract_zip, with every directory and file as it
\* was, without a call of populate and with nothing written.
C18_BadZipStopsRun ==
    (BadZipGiven /\ PastAcquire) =>
        /\ raised.cls = "BadZIPError" /\ raised.code = "BAD_ZIP"
        /\ WorldUntouched
        /\ \A c \in 1..Len(calls) : calls[c].fn # "populate"
        /\ store = <<>>

\* the same, for the runs in which line 158 picked the key 'zip'
C18_BadZipStopsRunWhenSelected ==
    (BadZipGiven /\ PastAcquire /\ arg = "zip") =>
        /\ raised.cls = "BadZIPError" /\ raised.code = "BAD_ZIP"
        /\ WorldUntouched
        /\ \A c \in 1..Len(calls) : calls[c].fn # "populate"
        /\ store = <<>>

\* the archives an earlier run left in the working directories
LeftOver == DOMAIN WorldFiles(TRUE) \ DOMAIN WorldFiles(FALSE)

\* the files populate has listed: processed, in process or still to come
Listed == gzs \cup Range(opened)

TempDirMode == OneMode /\ TheMode \in {"url", "arch_date", "zip", "files"}

\* C19: in url, date, zip and file-list mode no archive that an earlier run
\* left in the working directory is among the files populate processes.
C19_NoLeftOverProcessed ==
    TempDirMode => Listed \cap LeftOver = {}

\* the same, for the modes other than zip when line 158 picked the mode
C19_NoLeftOverUnlessZip ==
    (TempDirMode /\ TheMode # "zip" /\ arg = TheMode) =>
        Listed \cap LeftOver = {}

\* the caller chose the date mode and validate_date rejected the expression
DateRejected ==
    /\ OneMode /\ TheMode = "arch_date"
    /\ PastAcquire
    /\ raised.cls = "DBPopulateError"

\* C20: in date mode the expression is validated before the working
\* directory is cleared or created and before the download: when
\* validate_date rejects the expression, empty_directory and download were
\* not called and every directory and file is as it was.
C20_ValidatedBeforeClearing ==
    DateRejected =>
        /\ \A c \in 1..Len(calls) :
             calls[c].fn \notin {"empty_directory", "download"}
        /\ WorldUntouched

\* the download itself never happens for a rejected expression
C20_NoDownloadWhenRejected ==
    DateRejected => \A c \in 1..Len(calls) : calls[c].fn # "download"

(***************************************************************************)
(* Claims about validate_date, checked under SpecDate.                     *)
(***************************************************************************)
DashCount(expr) == Cardinality({i \in 1..Len(expr) : expr[i] = "-"})

AllDigits(expr, from, to) == \A i \in from..to : expr[i] \in Range(Digits)

\* expr reads YYYY-MM-DD-HH, all digits
UnbracedShape(expr) ==
    /\ Len(expr) = 13
    /\ expr[5] = "-" /\ expr[8] = "-" /\ expr[11] = "-"
    /\ AllDigits(expr, 1, 4) /\ AllDigits(expr, 6, 7)
    /\ AllDigits(expr, 9, 10) /\ AllDigits(expr, 12, 13)

\* the instant an expression of that shape names
UnbracedInstant(expr) ==
    <<ToInt(SubSeq(expr, 1, 4)), ToInt(SubSeq(expr, 6, 7)),
      ToInt(SubSeq(expr, 9, 10)), ToInt(SubSeq(expr, 12, 13)), 0>>

\* a well-formed unbraced expression: of the shape YYYY-MM-DD-HH, naming an
\* hour of the calendar that lies inside the archive's range at time clock
WellFormedUnbraced(expr, clock) ==
    /\ UnbracedShape(expr)
    /\ ValidDateTime(UnbracedInstant(expr))
    /\ Before(START_DATE, UnbracedInstant(expr))
    /\ Before(UnbracedInstant(expr), clock)

C7_WitnessBraced ==
    /\ dpc = "returned"
    /\ Contains(arch_date, <<"{">>)
    /\ DashCount(arch_date) = 4

\* C8: when validate_date rejects an expression for a structural violation,
\* the message of the raised error names the violating field and the bound
\* side.
C8_MessageNamesField ==
    (dpc = "raised" /\ lower # <<>> /\ FormatViolation(lower, upper) # <<>>) =>
        /\ Txt(FormatViolation(lower, upper)[1]) \in Range(raised.args)
        /\ Txt(FormatViolation(lower, upper)[2]) \in Range(raised.args)

\* the structural rejection of 2012-4-05-2 is raised
C8_Reached ==
    /\ dpc = "raised"
    /\ arch_date = <<"2","0","1","2","-","4","-","0","5","-","2">>
    /\ raised.code = "IMPROPER_VALUE"

\* both bounds are instants of the calendar
HasInstants ==
    /\ lowerInt # <<>> /\ upperInt # <<>>
    /\ ValidDateTime(lowerInt) /\ ValidDateTime(upperInt)

StrictlyInside(t, clock) ==
    /\ Before(START_DATE, <<t[1], t[2], t[3], t[4], 0>>)
    /\ Before(<<t[1], t[2], t[3], t[4], 0>>, clock)

C9_WitnessNow ==
    /\ dpc = "raised"
    /\ HasInstants
    /\ <<upperInt[1], upperInt[2], upperInt[3], upperInt[4], 0>> = now

\* C10: an expression with fewer than 4 components is rejected with the
\* missing-value error, an error of the DBPopulateError family, before any
\* other check: no bound list has been built.
C10_MissingValueFirst ==
    (DashCount(arch_date) < 3 /\ dpc # "split") =>
        /\ dpc = "raised"
        /\ raised.cls \in DBPopulateFamily
        /\ raised.code = "MISSING_VALUE"
        /\ lower = <<>> /\ upper = <<>>
        /\ lowerInt = <<>> /\ upperInt = <<>>
        /\ Len(flog) = 1

C10_Witness ==
    /\ DashCount(arch_date) = 2
    /\ dpc = "raised"
    /\ raised.code = "MISSING_VALUE"

\* validate_date has returned or raised
Finished == dpc \in {"returned", "raised"}

\* the two lists of component texts of the expression
LowerTexts == LowerOf(DateParts(arch_date))

UpperTexts == UpperOf(DateParts(arch_date))

\* a component is missing, or a year is not 4 or a month or day not 2
\* characters long
StructuralFault ==
    \/ DashCount(arch_date) < 3
    \/ \E b \in {LowerTexts, UpperTexts} :
         Len(b[1]) # 4 \/ Len(b[2]) # 2 \/ Len(b[3]) # 2

\* a component is not the text of an integer
NotInteger(text) ==
    text = <<>> \/ \E k \in 1..Len(text) : text[k] \notin Range(Digits)

TypingFault ==
    \E b \in {LowerTexts, UpperTexts} : \E k \in 1..4 : NotInteger(b[k])

\* a bound is no date and hour of the calendar
CalendarFault ==
    \E b \in {LowerTexts, UpperTexts} : ~ValidDateTime(MapInt(b))

\* C21: validate_date reports the first check that fails, in the order
\* structural, typing, calendar, range: a structural fault gives the
\* missing-value or improper-value error whatever else is wrong, a typing
\* fault without a structural one the improper-type error, a calendar fault
\* without the former two the calendar error, and only an expression with
\* none of the three reaches the range check.
C21_FirstFailingCheckReported ==
    Finished =>
        /\ StructuralFault =>
             dpc = "raised" /\ raised.code \in {"MISSING_VALUE", "IMPROPER_VALUE"}
        /\ (~StructuralFault /\ TypingFault) =>
             dpc = "raised" /\ raised.code = "IMPROPER_TYPE"
        /\ (~StructuralFault /\ ~TypingFault /\ CalendarFault) =>
             dpc = "raised" /\ raised.code = "ValueError"
        /\ (~StructuralFault /\ ~TypingFault /\ ~CalendarFault) =>
             \/ dpc = "returned"
             \/ dpc = "raised" /\ raised.code = "_OUT_BRACKET"

\* a one-character month together with a day that is no integer is reported
\* as the structural error
C21_Witness ==
    /\ dpc = "raised" /\ DashCount(arch_date) = 3
    /\ LowerTexts[2] = <<"4">> /\ LowerTexts[3] = <<"0", "x">>
    /\ raised.code = "IMPROPER_VALUE"

\* a month of the right length that is no integer together with the year
\* 2010 is reported as the typing error
C21_WitnessTyping ==
    /\ dpc = "raised" /\ DashCount(arch_date) = 3
    /\ LowerTexts[1] = <<"2", "0", "1", "0">> /\ LowerTexts[2] = <<"0", "a">>
    /\ raised.code = "IMPROPER_TYPE"

\* component k of the expression without its braces
Component(k) == Strip(DateParts(arch_date)[k], {"{", "}"})

\* the text before the first d of text, all the text after it, and the text
\* between it and the next d or the end
LeftOf(text, d) == SubSeq(text, 1, Find(text, d) - 1)

RestOf(text, d) == SubSeq(text, Find(text, d) + Len(d), Len(text))

RightOf(text, d) ==
    LET rest == SubSeq(text, Find(text, d) + Len(d), Len(text))
    IN IF Find(rest, d) = 0 THEN rest ELSE SubSeq(rest, 1, Find(rest, d) - 1)

\* the range delimiter of a component: '..' when it occurs, else ',' when it
\* occurs, else none
DelimiterOf(text) ==
    IF \E p \in 1..Len(text) - 1 : text[p] = "." /\ text[p + 1] = "."
    THEN <<".", ".">>
    ELSE IF \E p \in 1..Len(text) : text[p] = "," THEN <<",">>
    ELSE <<>>

\* 2012-04-{05..25}-{2..18}
RangeExample ==
    <<"2","0","1","2","-","0","4","-","{","0","5",".",".","2","5","}","-",
      "{","2",".",".","1","8","}">>

\* C22 as stated: the upper bound of a component is all the text right of
\* its delimiter.
C22_UpperIsTextRightOfDelimiter ==
    (dpc # "split" /\ DashCount(arch_date) >= 3) =>
        \A k \in 1..4 :
            IF DelimiterOf(Component(k)) = <<>>
            THEN lower[k] = Component(k) /\ upper[k] = Component(k)
            ELSE /\ lower[k] = LeftOf(Component(k), DelimiterOf(Component(k)))
                 /\ upper[k] = RestOf(Component(k), DelimiterOf(Component(k)))

\* C22: once the bounds are built, for each of the four components the
\* lower bound is the text left of the delimiter and the upper bound the
\* text between it and its next occurrence (or the end), the delimiter
\* being '..' when the component holds one and ',' only otherwise; a
\* component without delimiter is both bounds.
\* 2012-04-{05..25}-{2..18} has the bounds 2012-04-05T02 and 2012-04-25T18.
C22_BoundsSplitAtDelimiter ==
    /\ (dpc # "split" /\ DashCount(arch_date) >= 3) =>
          \A k \in 1..4 :
            IF DelimiterOf(Component(k)) = <<>>
            THEN lower[k] = Component(k) /\ upper[k] = Component(k)
            ELSE /\ lower[k] = LeftOf(Component(k), DelimiterOf(Component(k)))
                 /\ upper[k] = RightOf(Component(k), DelimiterOf(Component(k)))
    /\ (arch_date = RangeExample /\ dpc \in {"calendar", "range", "returned"}) =>
          /\ DateTime(lowerInt) = <<2012, 4, 5, 2, 0>>
          /\ DateTime(upperInt) = <<2012, 4, 25, 18, 0>>

\* the example was accepted with these bounds
C22_Witness ==
    /\ arch_date = RangeExample /\ dpc = "returned"
    /\ lowerInt = <<2012, 4, 5, 2>> /\ upperInt = <<2012, 4, 25, 18>>

\* a component holding both a ',' and a '..' was split at the '..'
C22_WitnessBoth ==
    /\ dpc # "split" /\ DashCount(arch_date) >= 3
    /\ Component(4) = <<"2", ",", "3", ".", ".", "1", "8">>
    /\ lower[4] = <<"2", ",", "3">> /\ upper[4] = <<"1", "8">>

(***************************************************************************)
(* Claims about the loop of populate, checked under Spec.                  *)
(***************************************************************************)
\* the place of file f among the opened files
PlaceOf(f) == CHOOSE k \in 1..Len(opened) : opened[k] = f

\* the progress messages logged so far
ProgressLog == SelectSeq(clog, LAMBDA e : e.msg = "populated")

\* C23: the files are taken one at a time in the order the listing yields
\* them: no file is opened twice, every file opened before the latest one
\* has run its loop body to the end and has all its writes in the store, and
\* the writes in the store follow the order of opening; the progress
\* messages logged are those for 10, 20, ... up to the number of files
\* processed, one each; and the total logged when the loop has ended is the
\* number of files processed.
C23_OneFileAtATime ==
    /\ \A j, k \in 1..Len(opened) : opened[j] = opened[k] => j = k
    /\ populated \in {Len(opened) - 1, Len(opened)}
    /\ pc = "loop" => populated = Len(opened)
    /\ \A k \in 1..Len(opened) - 1 :
         /\ opened[k] \in Processed
         /\ opened[k] \in DOMAIN fs =>
               Cardinality(WritesOf(opened[k])) =
                   2 * Cardinality(TypesIn(fs[opened[k]]))
    /\ \A w \in 1..Len(store) :
         /\ \E k \in 1..Len(opened) : opened[k] = store[w].gz
         /\ \A v \in 1..w : PlaceOf(store[v].gz) <= PlaceOf(store[w].gz)
    /\ Len(ProgressLog) = populated \div 10
    /\ \A j \in 1..Len(ProgressLog) : ProgressLog[j].n = 10 * j
    /\ pc \in {"delete", "done"} =>
         /\ clog[Len(clog)].msg = "total"
         /\ clog[Len(clog)].n = Len(opened)
         /\ clog[Len(clog)].n = populated

\* the eleven archives were populated: one progress message, after the
\* tenth, and a total of eleven
C23_Witness ==
    /\ pc = "done" /\ populated = 11 /\ Len(store) = 4
    /\ Len(ProgressLog) = 1 /\ ProgressLog[1].n = 10
    /\ clog[Len(clog)].n = 11

\* the second of two archives is open and the first has all its writes
C23_WitnessSecond ==
    /\ pc = "decode" /\ Len(opened) = 2 /\ fs[opened[1]] = "A"
    /\ Cardinality(WritesOf(opened[1])) = 4

\* the buffer of the file that is open
Buffer == GzData(fs[gz])

\* the while loop of lines 123-129 is running, or has been left
InLoop == pc = "decode"

LoopLeft == pc \in {"flush", "failed"}

\* C24 as stated: the loop is left with the cursor at the length of the
\* buffer or with a parse failure.
C24_EndsAtLengthOrParseFailure ==
    [][(InLoop /\ ~InLoop') =>
          \/ pc' = "flush" /\ end = Len(Buffer)
          \/ pc' = "failed" /\ raised'.cls = "ValueError"]_vars

\* C24: the decode loop ends for every buffer: the cursor stays within the
\* buffer, a turn that stays in the loop moves it strictly forward, and the
\* loop is left, with the cursor at the length of the buffer, with a parse
\* failure that leaves the cursor where it was (as on trailing bytes after
\* the last object), or with the failed lookup of the type of a decoded
\* value.
C24_DecodeLoopTerminates ==
    /\ [](InLoop => end \in 0..Len(Buffer))
    /\ [][(InLoop /\ InLoop') => end' > end]_vars
    /\ [][(InLoop /\ ~InLoop') =>
            \/ pc' = "flush" /\ end' = end /\ end = Len(Buffer)
            \/ pc' = "failed" /\ raised'.cls = "ValueError" /\ end' = end
            \/ pc' = "failed" /\ raised'.cls = "KeyError" /\ end' > end]_vars
    /\ (InLoop ~> LoopLeft)

\* the loop was left on the line break after the first object of an archive
\* written one object per line
C24_Witness ==
    /\ pc = "failed" /\ raised.cls = "ValueError" /\ fs[gz] = "LINES"
    /\ end > 0 /\ end < Len(Buffer) /\ Buffer[end + 1] = "\n"

\* the loop was left at the end of a buffer of five objects
C24_WitnessEnd ==
    /\ pc = "flush" /\ fs[gz] = "A" /\ end = Len(Buffer) /\ Len(gz_events) = 5

\* every record of the archives of the world
AllRecords == UNION { Range(ArchiveObjects[c]) : c \in DOMAIN ArchiveObjects }

\* the number of copies of record r in collection c: the places of r in the
\* writes to c
CopiesIn(c, r) ==
    Cardinality(UNION { {<<w, k>> : k \in {j \in 1..Len(store[w].docs) :
                                              store[w].docs[j] = r}} :
                        w \in {v \in 1..Len(store) : store[v].coll = c} })

\* the number of times r is a retained record of a processed file
RetainedCopies(r) ==
    Cardinality(UNION { {<<f, k>> : k \in {j \in RetainedIn(fs[f]) :
                                              ArchiveObjects[fs[f]][j] = r}} :
                        f \in Processed \cap DOMAIN fs })

\* populate has returned
PopulateReturned == pc = "delete"

\* C25: the store being empty at the start, at every moment of a run, the
\* one in which an insert fails included, a record is in the catch-all at
\* most as many times as in the collection of its type; and when populate
\* has returned, every record is in the catch-all exactly as many times as
\* in the collection of its type, which is the number of times it is a
\* retained record of a processed file, and no other collection was written.
C25_CatchAllWithinTypeCollections ==
    /\ \A r \in AllRecords :
         /\ CopiesIn(ALL_COLL, r) > 0 => r.type \in POPULARITY_EVENTS
         /\ r.type \in POPULARITY_EVENTS =>
               CopiesIn(ALL_COLL, r) <= CopiesIn(r.type, r)
    /\ \A w \in 1..Len(store) :
         /\ store[w].coll \in POPULARITY_EVENTS \cup {ALL_COLL}
         /\ \A k \in 1..Len(store[w].docs) :
              /\ store[w].docs[k] \in AllRecords
              /\ store[w].coll # ALL_COLL => store[w].docs[k].type = store[w].coll
    /\ PopulateReturned =>
         \A r \in AllRecords :
            r.type \in POPULARITY_EVENTS =>
               /\ CopiesIn(ALL_COLL, r) = CopiesIn(r.type, r)
               /\ CopiesIn(ALL_COLL, r) = RetainedCopies(r)

\* two archives with the same record were populated: the record is twice in
\* the catch-all and twice in the collection of its type
C25_Witness ==
    /\ PopulateReturned /\ populated = 11
    /\ \E r \in AllRecords :
         r.type = "PushEvent" /\ CopiesIn(ALL_COLL, r) = 2 /\ CopiesIn("PushEvent", r) = 2

\* the insert into the catch-all failed after the insert into the type
\* collection
C25_WitnessFailure ==
    /\ StorageFailed
    /\ \E r \in AllRecords :
         r.type \in POPULARITY_EVENTS /\ CopiesIn(ALL_COLL, r) < CopiesIn(r.type, r)

\* the file whose decoding failed
FailedFile == opened[Len(opened)]

\* C26: when the decoding of a file has failed, on bytes that cannot be
\* parsed or on a value without a type, the store holds no write of that
\* file, whatever was decoded before the failure; it holds all the writes of
\* the files processed before it; and from then on nothing is written and no
\* file is opened.
C26_FailedFileWritesNothing ==
    /\ [](DecodeFailure =>
            /\ gz = FailedFile
            /\ WritesOf(FailedFile) = {}
            /\ populated = Len(opened) - 1
            /\ \A k \in 1..Len(opened) - 1 :
                 Cardinality(WritesOf(opened[k])) =
                     2 * Cardinality(TypesIn(fs[opened[k]])))
    /\ [][DecodeFailure =>
            /\ store' = store /\ opened' = opened
            /\ populated' = populated /\ gzs' = gzs]_vars

\* the second archive of a directory failed after one of its records was
\* decoded: the writes of the first archive are in the store
C26_Witness ==
    /\ DecodeFailure /\ raised.cls = "ValueError"
    /\ Len(opened) = 2 /\ fs[FailedFile] = "LINES"
    /\ Len(gz_events) = 1 /\ gz_events[1].type = "PushEvent"
    /\ Len(store) = 2 /\ WritesOf(opened[1]) = {1, 2}

\* the first archive of a directory failed: the other one is never opened
C26_WitnessFirst ==
    /\ DecodeFailure /\ Len(opened) = 1 /\ gzs # {} /\ store = <<>>
    /\ pc \in {"failed", "traceback"}

\* an archive failed on a value without a type after a record was decoded
C26_WitnessUntyped ==
    /\ DecodeFailure /\ raised.cls = "KeyError"
    /\ Len(gz_events) = 2 /\ gz_events[1].type = "WatchEvent" /\ store = <<>>

\* both bounds of the expression pass the range check at the time of the
\* clock
BothInRange ==
    /\ StrictlyInside(MapInt(LowerTexts), now)
    /\ StrictlyInside(MapInt(UpperTexts), now)

\* C27: an expression whose two bounds each pass the structural, typing,
\* calendar and range checks is returned unchanged, whatever the order of
\* the two bounds: they are never compared with each other.
C27_BoundsNotCompared ==
    (Finished /\ ~StructuralFault /\ ~TypingFault /\ ~CalendarFault
        /\ BothInRange) =>
        /\ dpc = "returned"
        /\ ret = arch_date

\* an expression with the day range {25..05}, its lower bound after its
\* upper bound, was returned
C27_Witness ==
    /\ dpc = "returned" /\ ret = arch_date
    /\ DateParts(arch_date)[3] = <<"{", "2", "5", ".", ".", "0", "5", "}">>
    /\ lowerInt[3] = 25 /\ upperInt[3] = 5
    /\ Before(DateTime(upperInt), DateTime(lowerInt))

====
